---- MODULE Spec2Model ----
(***************************************************************************)
(* The browser-side controller of the playlist downloader, in its two      *)
(* variants:                                                               *)
(*   "public"  src/public/app.js  sequential, one POST /api/download per   *)
(*                                item, awaited in a loop                  *)
(*   "static"  src/static/app.js  one EventSource per run, the backend     *)
(*                                pushes typed events                      *)
(* The variant is fixed by Init; every handler is one action.  A handler   *)
(* runs to completion (JavaScript's single thread), so an action is the    *)
(* code from the event up to the next await or to its return.              *)
(*                                                                         *)
(* What the page lets the user do comes from the DOM, not from the         *)
(* handlers: the URL field and the extract button belong to the input      *)
(* section, the cards and the playlist controls to the results section,    *)
(* and showSection shows exactly one section; a disabled button fires no   *)
(* click.  These are the guards written on `view` and on the *Disabled     *)
(* variables; the guards on isDownloading, selectedIds and sessionId are   *)
(* the handlers' own.                                                      *)
(*                                                                         *)
(* Not modelled: texts and thumbnails of the cards, the per-card progress  *)
(* fill (updateCardProgress), the download bar's own visibility and the    *)
(* "complete" class of its fill, the fmt and the order of the ids in the   *)
(* EventSource URL, the browser's file download, window.open.              *)
(***************************************************************************)
EXTENDS Naturals, Sequences, FiniteSets

\* ------------------------------------------------------------- bounds
\* Item identifiers are 1..NumIds; a playlist holds each at most once
\* ("identifier unique within a session").
NumIds == 2
\* Sessions the backend issues in one behaviour (static variant).
MaxSessions == 2
\* Subscriptions open at the same time (static variant).
MaxOpen == 1

Ids == 1..NumIds

\* ---------------------------------------------------------- constants
\* let sessionId = null; also what a missing session_id (undefined) is
\* to `if (sessionId)`: falsy.
Null == 0
\* `videos = data.videos` of a response that has no videos list.
undefined == <<0>>

Formats == {"mp3", "mp4"}

VARIABLES
  variant,             \* "public" | "static": which app.js runs
  \* --- module state (let ...)
  sessionId,           \* static only
  videos,              \* sequence of video_id, or undefined
  selectedIds,         \* a JS Set: insertion-ordered, no duplicates
  downloadedIds,
  errorIds,
  allSelected,
  selectedFormat,
  isDownloading,       \* public only
  \* --- DOM
  view,                \* the section showSection left visible
  extractBtnDisabled,
  errorHidden,         \* errorMsg.classList has "hidden" (its text is not modelled)
  cards,               \* video_id of the cards of videoGrid, in order
  cardState,           \* class of each card: idle/downloading/complete/error
  selectAllBtnText,
  selectAllBtnDisabled,
  downloadBtnCount,    \* the n of "Download Selected (n)"
  downloadBtnDisabled,
  downloadStatus,      \* <<text, n, m>> of downloadStatus.textContent, titles left out
  overallProgress,     \* <<n, t>> of the text "n / t"
  overallFill,         \* <<n, t>>: width (n / t) * 100 %
  zipHidden,           \* static only
  \* --- in flight
  extractPending,      \* a POST /api/extract awaits its response
  runs,                \* the unfinished calls of startDownloads / startDownload
  \* --- backend
  nextSession,         \* the next session_id the backend issues
  released             \* the DELETE /api/session/<id> requests sent, in order

vars == <<variant, sessionId, videos, selectedIds, downloadedIds, errorIds,
          allSelected, selectedFormat, isDownloading, view, extractBtnDisabled,
          errorHidden, cards, cardState, selectAllBtnText,
          selectAllBtnDisabled, downloadBtnCount, downloadBtnDisabled,
          downloadStatus, overallProgress, overallFill, zipHidden,
          extractPending, runs, nextSession, released>>

stateVars == <<sessionId, videos, selectedIds, downloadedIds, errorIds,
               allSelected, selectedFormat, isDownloading>>
selectionUI == <<selectAllBtnText, downloadBtnCount, downloadBtnDisabled>>
barVars == <<downloadStatus, overallProgress, overallFill, zipHidden>>
errVars == <<errorHidden>>
backendVars == <<nextSession, released>>

\* ------------------------------------------------------------ helpers
Range(s) == {s[i] : i \in 1..Len(s)}

\* Set.prototype.delete on an insertion-ordered set
SetDelete(s, id) == SelectSeq(s, LAMBDA x : x # id)

\* Set.prototype.add: a member keeps its place, a new one goes last
SetAdd(s, id) == IF id \in Range(s) THEN s ELSE Append(s, id)

RECURSIVE AddAll(_, _)
AddAll(s, ids) ==
  IF ids = <<>> THEN s ELSE AddAll(SetAdd(s, Head(ids)), Tail(ids))

RECURSIVE DeleteAll(_, _)
DeleteAll(s, ids) ==
  IF ids = <<>> THEN s ELSE DeleteAll(SetDelete(s, Head(ids)), Tail(ids))

\* The playlists a response can carry: n items, no identifier twice.
\* The items of a playlist are numbered in extraction order, so two
\* playlists share the identifiers of the shorter one.
Playlists == {[i \in 1..n |-> i] : n \in 0..NumIds}

\* new Set(videos.map((v) => v.video_id))
IdsOf(v) == AddAll(<<>>, v)

\* videos.length
Length(v) == Len(v)

\* document.querySelector(`[data-video-id="..."]`) finds a card
HasCard(id) == id \in Range(cards)

\* updateCardState: no card, no change
updateCardState(cs, id, state) ==
  IF HasCard(id) THEN [cs EXCEPT ![id] = state] ELSE cs

AllIdle == [i \in Ids |-> "idle"]

\* ------------------------------------------------------------- Init
Init ==
  /\ variant \in {"public", "static"}
  /\ sessionId = Null
  /\ videos = <<>>
  /\ selectedIds = <<>>
  /\ downloadedIds = {}
  /\ errorIds = {}
  /\ allSelected = TRUE
  /\ selectedFormat = "mp3"
  /\ isDownloading = FALSE
  /\ view = "input"
  /\ extractBtnDisabled = FALSE
  /\ errorHidden = TRUE
  /\ cards = <<>>
  /\ cardState = AllIdle
  /\ selectAllBtnText = "Deselect All"
  /\ selectAllBtnDisabled = FALSE
  /\ downloadBtnCount = 0
  /\ downloadBtnDisabled = FALSE
  /\ downloadStatus = <<"", 0, 0>>
  /\ overallProgress = <<0, 0>>
  /\ overallFill = <<0, 1>>
  /\ zipHidden = TRUE
  /\ extractPending = FALSE
  /\ runs = <<>>
  /\ nextSession = 1
  /\ released = <<>>

\* ------------------------------------------------- extractPlaylist
\* What the user typed, after trim(): nothing, text that does not start
\* with "http", or a URL.
UrlInputs == {"", "ftp://x", "http://x"}

\* Mutant: the prefix is not looked at.
StartsWithHttp_any(url) == TRUE

\* url.startsWith("http")
StartsWithHttp(url) == url = "http://x"

\* extractPlaylist, the two early returns: showError and nothing else.
ExtractInvalid(url) ==
  /\ view = "input"
  /\ url = "" \/ ~StartsWithHttp(url)
  /\ errorHidden' = FALSE
  /\ UNCHANGED <<variant, stateVars, view, extractBtnDisabled, cards, cardState,
                 selectionUI, selectAllBtnDisabled, barVars, extractPending,
                 runs, backendVars>>

\* extractPlaylist up to `await fetch("/api/extract", ...)`.
ExtractSubmit(url) ==
  /\ view = "input"
  /\ url # "" /\ StartsWithHttp(url)
  /\ variant = "static" => nextSession <= MaxSessions
  /\ errorHidden' = TRUE
  /\ extractBtnDisabled' = TRUE
  /\ view' = "loading"
  /\ extractPending' = TRUE
  /\ UNCHANGED <<variant, stateVars, cards, cardState, selectionUI,
                 selectAllBtnDisabled, barVars, runs, backendVars>>

\* extractPlaylist called with url in the field, down to its return or
\* its first await.
Submit(url) == ExtractInvalid(url) \/ ExtractSubmit(url)

\* The session_id of a 2xx response: the one the backend issues now, or
\* none (the field is not the client's to guarantee).  The sequential
\* variant reads no session_id.
SessionIdsOffered ==
  IF variant = "static" THEN {nextSession, Null} ELSE {Null}

\* Mutant: the download button's label is not rewritten.
updateSelectionUI_staleLabel(sel, all) ==
  /\ selectAllBtnText' = IF all THEN "Deselect All" ELSE "Select All"
  /\ downloadBtnCount' = downloadBtnCount
  /\ downloadBtnDisabled' =
       IF variant = "public" THEN Len(sel) = 0 \/ isDownloading
       ELSE Len(sel) = 0

\* updateSelectionUI, on the values the handler has just assigned.
updateSelectionUI(sel, all) ==
  /\ selectAllBtnText' = IF all THEN "Deselect All" ELSE "Select All"
  /\ downloadBtnCount' = Len(sel)
  /\ downloadBtnDisabled' =
       IF variant = "public" THEN Len(sel) = 0 \/ isDownloading
       ELSE Len(sel) = 0

\* The catch and finally blocks of extractPlaylist.
ExtractCatch ==
  /\ view' = "input"
  /\ errorHidden' = FALSE
  /\ extractBtnDisabled' = FALSE
  /\ extractPending' = FALSE

\* A non-2xx response, a network failure or a body that is not JSON:
\* thrown before any assignment.
ExtractFail ==
  /\ extractPending
  /\ ExtractCatch
  /\ UNCHANGED <<variant, stateVars, cards, cardState, selectionUI,
                 selectAllBtnDisabled, barVars, runs, backendVars>>

\* A 2xx response without a videos list: sessionId and videos are
\* assigned, then videos.map throws a TypeError.
ExtractMalformed(sid) ==
  /\ extractPending
  /\ sid \in SessionIdsOffered
  /\ sessionId' = IF variant = "static" THEN sid ELSE sessionId
  /\ videos' = undefined
  /\ nextSession' = IF sid # Null THEN nextSession + 1 ELSE nextSession
  /\ ExtractCatch
  /\ UNCHANGED <<variant, selectedIds, downloadedIds, errorIds, allSelected,
                 selectedFormat, isDownloading, cards, cardState, selectionUI,
                 selectAllBtnDisabled, barVars, runs, released>>

\* Mutant: nothing is selected after an extraction.
ExtractSelection_none(v) == <<>>

\* The selection extractPlaylist leaves.
ExtractSelection(v) == IdsOf(v)

\* A 2xx response with a playlist: the assignments, renderVideoGrid,
\* showSection("results"), finally.
ExtractOk(v, sid) ==
  /\ extractPending
  /\ v \in Playlists
  /\ sid \in SessionIdsOffered
  /\ sessionId' = IF variant = "static" THEN sid ELSE sessionId
  /\ nextSession' = IF sid # Null THEN nextSession + 1 ELSE nextSession
  /\ videos' = v
  /\ selectedIds' = ExtractSelection(v)
  /\ downloadedIds' = {}
  /\ errorIds' = {}
  /\ allSelected' = TRUE
  \* renderVideoGrid
  /\ cards' = v
  /\ cardState' = AllIdle
  /\ zipHidden' = IF variant = "static" THEN TRUE ELSE zipHidden
  /\ updateSelectionUI(selectedIds', allSelected')
  /\ view' = "results"
  /\ extractBtnDisabled' = FALSE
  /\ extractPending' = FALSE
  /\ UNCHANGED <<variant, selectedFormat, isDownloading, errVars,
                 selectAllBtnDisabled, downloadStatus,
                 overallProgress, overallFill, runs, released>>

\* ------------------------------------------------------- selection
\* Mutant: a click only ever selects.
toggleSelection_addOnly(sel, id) == SetAdd(sel, id)

\* toggleSelection's change of selectedIds
toggleSelection(sel, id) ==
  IF id \in Range(sel) THEN SetDelete(sel, id) ELSE SetAdd(sel, id)

\* allSelected = selectedIds.size === videos.length
IsAllSelected(sel, v) == Len(sel) = Length(v)

\* Mutant: the card's listener does not look at isDownloading.
CardGate_none == FALSE

\* if (isDownloading) return; in the card's listener (sequential
\* variant only)
CardGate == variant = "public" /\ isDownloading

\* The card's click listener (a click outside .status-icon).
CardClick(id) ==
  /\ view = "results"
  /\ HasCard(id)
  /\ ~CardGate
  /\ selectedIds' = toggleSelection(selectedIds, id)
  /\ allSelected' = IsAllSelected(selectedIds', videos)
  /\ updateSelectionUI(selectedIds', allSelected')
  /\ UNCHANGED <<variant, sessionId, videos, downloadedIds, errorIds,
                 selectedFormat, isDownloading, view, extractBtnDisabled,
                 errVars, cards, cardState, selectAllBtnDisabled, barVars,
                 extractPending, runs, backendVars>>

\* selectAllBtn's loop over videoGrid.querySelectorAll(".video-card")
SelectAllLoop(sel, all) ==
  IF all THEN AddAll(sel, cards) ELSE DeleteAll(sel, cards)

\* selectAllBtn's click listener.
SelectAllClick ==
  /\ view = "results"
  /\ ~selectAllBtnDisabled
  /\ variant = "public" => ~isDownloading
  /\ allSelected' = ~allSelected
  /\ selectedIds' = SelectAllLoop(selectedIds, allSelected')
  /\ updateSelectionUI(selectedIds', allSelected')
  /\ UNCHANGED <<variant, sessionId, videos, downloadedIds, errorIds,
                 selectedFormat, isDownloading, view, extractBtnDisabled,
                 errVars, cards, cardState, selectAllBtnDisabled, barVars,
                 extractPending, runs, backendVars>>

\* ---------------------------------------------------- New Playlist
\* Mutant: the release request is sent without looking at sessionId.
ReleaseSession_unguarded(log, sid) == Append(log, sid)

\* The DELETE requests after the click: one more for a truthy sessionId,
\* none otherwise.
ReleaseSession(log, sid) == IF sid # Null THEN Append(log, sid) ELSE log

\* Mutant: New Playlist forgets to clear the selection.
ClearedSelection_kept == selectedIds

\* selectedIds.clear()
ClearedSelection == <<>>

\* newPlaylistBtn's click listener.
NewPlaylistClick ==
  /\ view = "results"
  /\ variant = "public" => ~isDownloading
  /\ released' = IF variant = "static" THEN ReleaseSession(released, sessionId)
                 ELSE released
  /\ sessionId' = IF variant = "static" THEN Null ELSE sessionId
  /\ videos' = <<>>
  /\ selectedIds' = ClearedSelection
  /\ downloadedIds' = {}
  /\ errorIds' = {}
  /\ zipHidden' = IF variant = "static" THEN TRUE ELSE zipHidden
  /\ view' = "input"
  /\ UNCHANGED <<variant, allSelected, selectedFormat, isDownloading,
                 extractBtnDisabled, errVars, cards, cardState, selectionUI,
                 selectAllBtnDisabled, downloadStatus, overallProgress,
                 overallFill, extractPending, runs, nextSession>>

\* ---------------------------------------------------- format toggle
\* A .format-btn click listener; the buttons are in a visible section
\* whenever the page is not loading.
FormatClick(f) ==
  /\ view # "loading"
  /\ f \in Formats
  /\ variant = "public" => ~isDownloading
  /\ selectedFormat' = f
  /\ UNCHANGED <<variant, sessionId, videos, selectedIds, downloadedIds,
                 errorIds, allSelected, isDownloading, view, extractBtnDisabled,
                 errVars, cards, cardState, selectionUI, selectAllBtnDisabled,
                 barVars, extractPending, runs, backendVars>>

\* ------------------------------------------- runs: shared helpers
Replace(s, k, r) == [s EXCEPT ![k] = r]

Remove(s, k) == SubSeq(s, 1, k - 1) \o SubSeq(s, k + 1, Len(s))

\* The summary startDownloads writes after its loop ("All done").
Summary(c, e) ==
  IF e = 0 THEN <<"All downloads complete!", c, 0>>
  ELSE IF c = 0 THEN <<"All downloads failed", 0, e>>
  ELSE <<"downloaded, failed", c, e>>

\* ------------------------------------ sequential variant: downloads
\* for (const videoId of videoIds) { video = videos.find(...);
\* if (!video) continue; ...: the first index from p on whose video is
\* found, 0 when the loop runs out.
RECURSIVE FindFrom(_, _, _)
FindFrom(ids, p, v) ==
  IF p > Len(ids) THEN 0
  ELSE IF ids[p] \in Range(v) THEN p
  ELSE FindFrom(ids, p + 1, v)

\* The body of POST /api/download for the video id: fmt: selectedFormat
Request(id) == [id |-> id, fmt |-> selectedFormat]

\* Mutant: a failed request ends the loop.
NextIndex_breakOnError(pos, ok) == IF ok THEN pos + 1 ELSE pos + NumIds

\* for (const videoId of videoIds): the index after the one at pos,
\* whether its request succeeded (ok) or threw
NextIndex(pos, ok) == pos + 1

\* Mutant: the counter leaves the failures out.
ProgressText_completedOnly(c, e, t) == <<c, t>>

\* `${completedCount + errorCount} / ${totalCount}`
ProgressText(c, e, t) == <<c + e, t>>

\* `${((completedCount + errorCount) / totalCount) * 100}%`
ProgressFill(c, e, t) == <<c + e, t>>

\* Mutant: startDownloads forgets isDownloading = true.
RaiseBusy_forgotten == FALSE

\* The flag startDownloads raises.
RaiseBusy == TRUE

\* Mutant: the end of startDownloads leaves the flag up.
LowerBusy_forgotten == TRUE

\* The flag after "All done": isDownloading = false
LowerBusy == FALSE

\* A call of startDownloads is a record: its videoIds (ids), the index
\* of the loop (pos), its counters, and the requests it has sent so far
\* (sent), the last of which is in flight.
\* The loop of startDownloads from index p on, for the call r (counts
\* already updated) kept at place k of runs (a new call, with the flag
\* and the buttons it sets on entry, when k is past the end), down to
\* the next await or to the end of the function.
SeqLoop(r, k, p, cs) ==
  LET q == FindFrom(r.ids, p, videos) IN
  IF q # 0
  THEN /\ cardState' = updateCardState(cs, r.ids[q], "downloading")
       /\ downloadStatus' = <<"Downloading:", 0, 0>>
       /\ runs' = LET r2 == [r EXCEPT !.pos = q,
                                      !.sent = Append(@, Request(r.ids[q]))]
                  IN IF k > Len(runs) THEN Append(runs, r2) ELSE Replace(runs, k, r2)
       /\ isDownloading' = IF k > Len(runs) THEN RaiseBusy ELSE isDownloading
       /\ downloadBtnDisabled' = IF k > Len(runs) THEN TRUE ELSE downloadBtnDisabled
       /\ selectAllBtnDisabled' = IF k > Len(runs) THEN TRUE ELSE selectAllBtnDisabled
  ELSE \* All done
       /\ cardState' = cs
       /\ downloadStatus' = Summary(r.completedCount, r.errorCount)
       /\ runs' = IF k > Len(runs) THEN runs ELSE Remove(runs, k)
       /\ isDownloading' = LowerBusy
       /\ downloadBtnDisabled' = FALSE
       /\ selectAllBtnDisabled' = FALSE

\* downloadSelectedBtn's click listener and startDownloads up to its
\* first await.
SeqDownloadClick ==
  /\ variant = "public"
  /\ view = "results"
  /\ ~downloadBtnDisabled
  /\ ~(Len(selectedIds) = 0 \/ isDownloading)
  /\ LET videoIds == selectedIds
         r == [ids |-> videoIds, pos |-> 0, completedCount |-> 0,
               errorCount |-> 0, totalCount |-> Len(videoIds),
               sent |-> <<>>]
     IN /\ overallProgress' = <<0, Len(videoIds)>>
        /\ overallFill' = <<0, 1>>
        /\ SeqLoop(r, Len(runs) + 1, 1, cardState)
  /\ UNCHANGED <<variant, sessionId, videos, selectedIds, downloadedIds,
                 errorIds, allSelected, selectedFormat, view,
                 extractBtnDisabled, errVars, cards, selectAllBtnText,
                 downloadBtnCount, zipHidden, extractPending, backendVars>>

\* The response to the request of call k arrives (ok: a 2xx with its
\* blob; otherwise the catch block), then the loop goes on.
SeqDownloadResponse(k, ok) ==
  /\ variant = "public"
  /\ k \in 1..Len(runs)
  /\ LET r == runs[k]
         id == r.sent[Len(r.sent)].id
         r2 == IF ok THEN [r EXCEPT !.completedCount = @ + 1]
               ELSE [r EXCEPT !.errorCount = @ + 1]
         cs == updateCardState(cardState, id, IF ok THEN "complete" ELSE "error")
     IN /\ downloadedIds' = IF ok THEN downloadedIds \cup {id} ELSE downloadedIds
        /\ errorIds' = IF ok THEN errorIds ELSE errorIds \cup {id}
        /\ overallProgress' = ProgressText(r2.completedCount, r2.errorCount, r2.totalCount)
        /\ overallFill' = ProgressFill(r2.completedCount, r2.errorCount, r2.totalCount)
        /\ SeqLoop(r2, k, NextIndex(r.pos, ok), cs)
  /\ UNCHANGED <<variant, sessionId, videos, selectedIds, allSelected,
                 selectedFormat, view, extractBtnDisabled, errVars, cards,
                 selectAllBtnText, downloadBtnCount, zipHidden, extractPending, backendVars>>

\* ----------------------------------- event-stream variant: downloads
\* overallProgress.textContent = `${completedCount} / ${totalCount}`
SseProgressText(c, e, t) == <<c, t>>

\* `${((completedCount + errorCount) / totalCount) * 100}%`
SseProgressFill(c, e, t) == <<c + e, t>>

\* Mutant: a run with failures never reads "All ... failed".
SseSummary_noAllFailed(c, e) ==
  IF e = 0 THEN <<"All downloads complete!", c, 0>>
  ELSE <<"downloaded, failed", c, e>>

\* case "all_complete": "Build completion message"
SseSummary(c, e) ==
  IF e = 0 THEN <<"All downloads complete!", c, 0>>
  ELSE IF c = 0 THEN <<"All downloads failed", 0, e>>
  ELSE <<"downloaded, failed", c, e>>

\* downloadSelectedBtn's click listener and startDownload: one
\* EventSource for the selection (ids, the video_ids of its URL), with
\* the counters of its closure.  todo is the backend's: the identifiers
\* it has not resolved yet.
SseDownloadClick ==
  /\ variant = "static"
  /\ view = "results"
  /\ ~downloadBtnDisabled
  /\ Len(selectedIds) # 0
  /\ Len(runs) < MaxOpen
  /\ downloadBtnDisabled' = TRUE
  /\ selectAllBtnDisabled' = TRUE
  /\ zipHidden' = TRUE
  /\ downloadStatus' = <<"Starting downloads...", 0, 0>>
  /\ overallProgress' = <<0, Len(selectedIds)>>
  /\ overallFill' = <<0, 1>>
  /\ runs' = Append(runs, [session |-> sessionId,
                           ids |-> Range(selectedIds),
                           completedCount |-> 0, errorCount |-> 0,
                           totalCount |-> Len(selectedIds),
                           todo |-> Range(selectedIds)])
  /\ UNCHANGED <<variant, stateVars, view, extractBtnDisabled, errVars, cards,
                 cardState, selectAllBtnText, downloadBtnCount, extractPending,
                 backendVars>>

\* Mutant: the backend sends events for identifiers it has resolved.
BackendSends_resolved(k, id) == id \in runs[k].ids

\* The backend's events for an identifier come while it is unresolved;
\* complete or error resolves it ("terminal on complete/error").
BackendSends(k, id) == id \in runs[k].todo

\* case "downloading"
SseDownloading(k, id) ==
  /\ variant = "static"
  /\ k \in 1..Len(runs)
  /\ BackendSends(k, id)
  /\ cardState' = updateCardState(cardState, id, "downloading")
  /\ downloadStatus' = <<"Downloading:", 0, 0>>
  /\ UNCHANGED <<variant, stateVars, view, extractBtnDisabled, errVars, cards,
                 selectionUI, selectAllBtnDisabled, overallProgress, overallFill, zipHidden,
                 extractPending, runs, backendVars>>

\* case "progress", with or without a speed (the card's fill is not
\* modelled)
SseProgress(k, id, speed) ==
  /\ variant = "static"
  /\ k \in 1..Len(runs)
  /\ BackendSends(k, id)
  /\ downloadStatus' = IF speed THEN <<"Downloading...", 0, 0>> ELSE downloadStatus
  /\ UNCHANGED <<variant, stateVars, view, extractBtnDisabled, errVars, cards,
                 cardState, selectionUI, selectAllBtnDisabled, overallProgress, overallFill, zipHidden,
                 extractPending, runs, backendVars>>

\* case "merging"
SseMerging(k, id) ==
  /\ variant = "static"
  /\ k \in 1..Len(runs)
  /\ BackendSends(k, id)
  /\ cardState' = updateCardState(cardState, id, "downloading")
  /\ UNCHANGED <<variant, stateVars, view, extractBtnDisabled, errVars, cards,
                 selectionUI, selectAllBtnDisabled, barVars, extractPending,
                 runs, backendVars>>

\* case "complete"
SseComplete(k, id) ==
  /\ variant = "static"
  /\ k \in 1..Len(runs)
  /\ BackendSends(k, id)
  /\ LET r == [runs[k] EXCEPT !.completedCount = @ + 1,
                              !.todo = @ \ {id}]
     IN /\ runs' = Replace(runs, k, r)
        /\ overallProgress' = SseProgressText(r.completedCount, r.errorCount, r.totalCount)
        /\ overallFill' = SseProgressFill(r.completedCount, r.errorCount, r.totalCount)
  /\ downloadedIds' = downloadedIds \cup {id}
  /\ cardState' = updateCardState(cardState, id, "complete")
  /\ downloadStatus' = <<"Downloaded:", 0, 0>>
  /\ UNCHANGED <<variant, sessionId, videos, selectedIds, errorIds, allSelected,
                 selectedFormat, isDownloading, view, extractBtnDisabled,
                 errVars, cards, selectionUI, selectAllBtnDisabled,
                 zipHidden, extractPending,
                 backendVars>>

\* case "error"
SseError(k, id) ==
  /\ variant = "static"
  /\ k \in 1..Len(runs)
  /\ BackendSends(k, id)
  /\ LET r == [runs[k] EXCEPT !.errorCount = @ + 1,
                              !.todo = @ \ {id}]
     IN /\ runs' = Replace(runs, k, r)
        /\ overallProgress' = SseProgressText(r.completedCount, r.errorCount, r.totalCount)
        /\ overallFill' = SseProgressFill(r.completedCount, r.errorCount, r.totalCount)
  /\ errorIds' = errorIds \cup {id}
  /\ cardState' = updateCardState(cardState, id, "error")
  /\ UNCHANGED <<variant, sessionId, videos, selectedIds, downloadedIds,
                 allSelected, selectedFormat, isDownloading, view,
                 extractBtnDisabled, errVars, cards, selectionUI,
                 selectAllBtnDisabled, downloadStatus,
                 zipHidden, extractPending, backendVars>>

\* Mutant: the handler leaves the subscription open.
CloseSource_leftOpen(rs, k) == rs

\* evtSource.close(): the subscription's handlers are called no more.
CloseSource(rs, k) == Remove(rs, k)

\* Mutant: the section is revealed by the run's own tally.
ZipReveal_byTally(k) ==
  IF runs[k].completedCount > 0 THEN FALSE ELSE zipHidden

\* "Show big ZIP section if we have files": zipSection's "hidden" after
\* if (downloadedIds.size > 0) classList.remove("hidden")
ZipReveal(k) ==
  IF Cardinality(downloadedIds) > 0 THEN FALSE ELSE zipHidden

\* case "all_complete": the backend sends it once every identifier of
\* the run is resolved; evtSource.close() ends the call.
SseAllComplete(k) ==
  /\ variant = "static"
  /\ k \in 1..Len(runs)
  /\ runs[k].todo = {}
  /\ runs' = CloseSource(runs, k)
  /\ downloadBtnDisabled' = FALSE
  /\ selectAllBtnDisabled' = FALSE
  /\ downloadStatus' = SseSummary(runs[k].completedCount, runs[k].errorCount)
  /\ zipHidden' = ZipReveal(k)
  /\ UNCHANGED <<variant, stateVars, view, extractBtnDisabled, errVars, cards,
                 cardState, selectAllBtnText, downloadBtnCount,
                 overallProgress, overallFill,
                 extractPending, backendVars>>

\* evtSource.onerror: the transport fails at any point of the run.
SseTransportError(k) ==
  /\ variant = "static"
  /\ k \in 1..Len(runs)
  /\ runs' = CloseSource(runs, k)
  /\ downloadStatus' = <<"Connection lost.", 0, 0>>
  /\ downloadBtnDisabled' = FALSE
  /\ selectAllBtnDisabled' = FALSE
  /\ UNCHANGED <<variant, stateVars, view, extractBtnDisabled, errVars, cards,
                 cardState, selectAllBtnText, downloadBtnCount,
                 overallProgress, overallFill, zipHidden, extractPending, backendVars>>

\* ------------------------------------------------------------- Next
\* The handlers the two variants share
Shared ==
  \/ \E url \in UrlInputs : ExtractInvalid(url)
  \/ \E url \in UrlInputs : ExtractSubmit(url)
  \/ ExtractFail
  \/ \E sid \in 0..MaxSessions : ExtractMalformed(sid)
  \/ \E v \in Playlists, sid \in 0..MaxSessions : ExtractOk(v, sid)
  \/ \E id \in Ids : CardClick(id)
  \/ SelectAllClick
  \/ NewPlaylistClick
  \/ \E f \in Formats : FormatClick(f)

Sequential ==
  \/ SeqDownloadClick
  \/ \E k \in 1..Len(runs), ok \in BOOLEAN : SeqDownloadResponse(k, ok)

EventStream ==
  \/ SseDownloadClick
  \/ \E k \in 1..Len(runs), id \in Ids : SseDownloading(k, id)
  \/ \E k \in 1..Len(runs), id \in Ids, speed \in BOOLEAN : SseProgress(k, id, speed)
  \/ \E k \in 1..Len(runs), id \in Ids : SseMerging(k, id)
  \/ \E k \in 1..Len(runs), id \in Ids : SseComplete(k, id)
  \/ \E k \in 1..Len(runs), id \in Ids : SseError(k, id)
  \/ \E k \in 1..Len(runs) : SseAllComplete(k)
  \/ \E k \in 1..Len(runs) : SseTransportError(k)

Next == Shared \/ Sequential \/ EventStream

\* Both variants
Spec == Init /\ [][Next]_vars

\* src/public/app.js alone
InitSeq == Init /\ variant = "public"

NextSeq == Shared \/ Sequential

SpecSeq == InitSeq /\ [][NextSeq]_vars

\* Every fetch of POST /api/download settles: its promise resolves or
\* rejects, and the awaiting call of startDownloads goes on.
SeqResponse == \E k \in 1..Len(runs), ok \in BOOLEAN : SeqDownloadResponse(k, ok)

\* src/public/app.js with every download request answered
SpecSeqLive == SpecSeq /\ WF_vars(SeqResponse)

\* ------------------------------------------------------------ claims
IsSummary(status) ==
  status[1] \in {"All downloads complete!", "All downloads failed",
                 "downloaded, failed"}

\* A step that applies a successful extraction response: the only one
\* that leaves the loading view for the results view.
ExtractionApplied == extractPending /\ view' = "results"

\* A step of the New Playlist listener: the only one from the results
\* view to the input view.
NewPlaylistStep == view = "results" /\ view' = "input"

NoDuplicates(s) == \A i, j \in 1..Len(s) : i # j => s[i] # s[j]

\* C1: no identifier is in both downloadedIds and errorIds, in any
\* reachable state of either variant.  The code breaks it: nothing takes
\* an identifier out of errorIds (or downloadedIds) when a later run
\* resolves it the other way.
C1_Disjoint == downloadedIds \cap errorIds = {}

\* C2: right after a successful extraction response is applied,
\* selectedIds is exactly the set of the returned video_ids and
\* downloadedIds and errorIds are empty, whatever they held before.
C2_ExtractionSelectsAll ==
  [][ExtractionApplied =>
       /\ Range(selectedIds') = Range(videos')
       /\ downloadedIds' = {}
       /\ errorIds' = {}]_vars

\* C2 witness: an extraction was applied while a run of the playlist
\* before it was still open (event-stream variant).
C2_Witness ==
  /\ view = "results"
  /\ Len(videos) >= 2
  /\ Range(selectedIds) = Range(videos)
  /\ downloadedIds = {}
  /\ sessionId # Null
  /\ \E k \in 1..Len(runs) : runs[k].session # sessionId

\* C3: sequential variant.  While a run over T identifiers has resolved
\* N of them, the counter reads N / T and the fill is N/T; once the run
\* has ended the fill is 100% and the tallies of the summary add up to T.
C3_Progress ==
  variant = "public" =>
    /\ \A k \in 1..Len(runs) :
         LET r == runs[k]
             N == r.pos - 1
             T == Len(r.ids)
         IN /\ r.completedCount + r.errorCount = N
            /\ overallProgress = <<N, T>>
            /\ overallFill[1] * T = N * overallFill[2]
    /\ (runs = <<>> /\ IsSummary(downloadStatus)) =>
         /\ overallFill[1] = overallFill[2]
         /\ overallProgress[1] = overallProgress[2]
         /\ downloadStatus[2] + downloadStatus[3] = overallProgress[2]

\* C3 witness: a run of two ended with one success and one failure.
C3_Witness ==
  /\ variant = "public"
  /\ runs = <<>>
  /\ downloadStatus = <<"downloaded, failed", 1, 1>>
  /\ overallProgress = <<2, 2>>

\* C4: a New Playlist click leaves videos, selectedIds, downloadedIds and
\* errorIds empty; in the event-stream variant it sends one DELETE for a
\* held sessionId and none without one, sessionId is null afterwards, and
\* no session is ever released twice.
C4_NewPlaylist ==
  /\ [][NewPlaylistStep =>
         /\ videos' = <<>>
         /\ selectedIds' = <<>>
         /\ downloadedIds' = {}
         /\ errorIds' = {}
         /\ variant = "static" =>
              /\ sessionId' = Null
              /\ sessionId # Null => released' = Append(released, sessionId)
              /\ sessionId = Null => released' = released]_vars
  /\ [](NoDuplicates(released) /\ \A i \in 1..Len(released) : released[i] # Null)

\* C4 witness: the session of the playlist was released, once, by the
\* click that led back to the input view.
C4_Witness ==
  /\ variant = "static"
  /\ view = "input"
  /\ released = <<1>>
  /\ sessionId = Null
  /\ cards # <<>>
  /\ videos = <<>>

\* C5: where card clicks are accepted, toggling a card twice gives back
\* the selection set and allSelected (and so the label) of before.
C5_ToggleTwice ==
  (view = "results" /\ ~CardGate) =>
    \A id \in Range(cards) :
      LET once == toggleSelection(selectedIds, id)
          twice == toggleSelection(once, id)
      IN /\ Range(twice) = Range(selectedIds)
         /\ Len(twice) = Len(selectedIds)
         /\ IsAllSelected(twice, videos) = allSelected
         /\ (selectAllBtnText = "Deselect All") = IsAllSelected(twice, videos)

\* C5 witness: the first card was toggled off and on again, which moved
\* it behind the second in the insertion order.
C5_Witness ==
  /\ view = "results"
  /\ ~CardGate
  /\ videos = <<1, 2>>
  /\ selectedIds = <<2, 1>>
  /\ allSelected

\* C6: with the results view shown, the select-all button reads
\* "Deselect All" exactly when selectedIds has as many members as the
\* playlist has items.  The code breaks it on an empty playlist: the
\* click flips allSelected although there is no card to select or
\* deselect.
C6_LabelIffAllSelected ==
  view = "results" =>
    ((selectAllBtnText = "Deselect All") <=> (Len(selectedIds) = Len(videos)))

\* C7: every selected identifier is a video_id of the current playlist.
C7_SelectionInPlaylist == Range(selectedIds) \subseteq Range(videos)

\* C7 witness: a selection was there and New Playlist took it away with
\* the playlist.
C7_Witness ==
  /\ view = "input"
  /\ cards # <<>>
  /\ videos = <<>>
  /\ selectedIds = <<>>

\* C8: sequential variant.  isDownloading is true exactly while a call of
\* startDownloads is unfinished; no step taken while it is true changes
\* videos, selectedIds or selectedFormat or starts another run; and the
\* requests of one run all carry the same format.
C8_BusyGates ==
  /\ [](variant = "public" => (isDownloading <=> runs # <<>>))
  /\ [][(variant = "public" /\ isDownloading) =>
          /\ videos' = videos
          /\ selectedIds' = selectedIds
          /\ selectedFormat' = selectedFormat
          /\ Len(runs') <= Len(runs)]_vars
  /\ [](variant = "public" =>
          \A k \in 1..Len(runs) :
            \A i, j \in 1..Len(runs[k].sent) :
              runs[k].sent[i].fmt = runs[k].sent[j].fmt)

\* C8 witness: the second request of a run is in flight, in the format
\* chosen before the run.
C8_Witness ==
  /\ variant = "public"
  /\ isDownloading
  /\ Len(runs) = 1
  /\ Len(runs[1].sent) = 2
  /\ runs[1].sent[2].fmt = "mp4"

\* C9: sequential variant.  At most one call of startDownloads is
\* unfinished, and with it at most one download request in flight.
C9_OneInFlight == variant = "public" => Len(runs) <= 1

\* C9 witness: a request is in flight after an earlier one of the run
\* has been answered.
C9_Witness ==
  /\ variant = "public"
  /\ Len(runs) = 1
  /\ runs[1].pos = 2
  /\ downloadBtnDisabled

\* C10: sequential variant.  A run asks for the identifiers selected at
\* its start, one request each, in insertion order: it starts with the
\* first, what it has sent is always the first pos of them, and it ends
\* only after the request for the last, failures included.
C10_OneRequestEach ==
  /\ [](variant = "public" =>
          \A k \in 1..Len(runs) :
            LET r == runs[k] IN
            /\ r.pos = Len(r.sent)
            /\ r.pos \in 1..Len(r.ids)
            /\ \A i \in 1..Len(r.sent) : r.sent[i].id = r.ids[i])
  /\ [][variant = "public" =>
          /\ Len(runs') > Len(runs) =>
               /\ runs'[Len(runs')].ids = selectedIds
               /\ Len(runs'[Len(runs')].sent) = 1
          /\ Len(runs') < Len(runs) =>
               Len(runs[1].sent) = Len(runs[1].ids)]_vars

\* C10 witness: the request for the first selected identifier failed
\* and the one for the second is in flight; the selection order is not
\* the playlist's.
C10_Witness ==
  /\ variant = "public"
  /\ Len(runs) = 1
  /\ runs[1].ids = <<2, 1>>
  /\ runs[1].errorCount = 1
  /\ Len(runs[1].sent) = 2
  /\ runs[1].sent[2].id = 1

\* The selections a run can start from: identifiers in insertion order,
\* none twice.
Selections ==
  {s \in UNION {[1..n -> Ids] : n \in 0..NumIds} : NoDuplicates(s)}

\* C11: sequential variant, every download request answered.  A run
\* started on the selection s leads to a state where no run is left,
\* isDownloading is false, the download and select-all buttons are
\* enabled and every identifier of s is in downloadedIds or errorIds.
C11_RunEnds ==
  \A s \in Selections :
    (variant = "public" /\ Len(runs) = 1 /\ runs[1].ids = s)
      ~> /\ runs = <<>>
         /\ ~isDownloading
         /\ ~downloadBtnDisabled
         /\ ~selectAllBtnDisabled
         /\ Range(s) \subseteq downloadedIds \cup errorIds

\* C11 witness: a run over two identifiers has ended, one downloaded
\* and one failed, and the controls are back.
C11_Witness ==
  /\ variant = "public"
  /\ runs = <<>>
  /\ ~isDownloading
  /\ ~downloadBtnDisabled
  /\ ~selectAllBtnDisabled
  /\ Len(selectedIds) = 2
  /\ Cardinality(downloadedIds) = 1
  /\ Cardinality(errorIds) = 1
  /\ Range(selectedIds) = downloadedIds \cup errorIds

\* The summary the claim states for c complete and e error outcomes.
ClaimedSummary(c, e) ==
  CASE e = 0 -> <<"All downloads complete!", c, 0>>
    [] c = 0 /\ e > 0 -> <<"All downloads failed", 0, e>>
    [] OTHER -> <<"downloaded, failed", c, e>>

\* The step ends the run at place k: by all_complete in the event-stream
\* variant (a transport error writes its own text), by the response to
\* the last request in the sequential one.
EndsRun(k) ==
  /\ k \in 1..Len(runs)
  /\ runs' = Remove(runs, k)
  /\ downloadStatus'[1] # "Connection lost."

\* The tallies of the run at place k when the step that ends it has
\* counted its last outcome: the event-stream closure has counted every
\* event before all_complete; the sequential loop counts the outcome of
\* its last request, shown by that card, in the ending step itself.
FinalTally(k) ==
  LET r == runs[k] IN
  IF variant = "static" THEN <<r.completedCount, r.errorCount>>
  ELSE LET last == r.sent[Len(r.sent)].id IN
       IF cardState'[last] = "complete"
       THEN <<r.completedCount + 1, r.errorCount>>
       ELSE <<r.completedCount, r.errorCount + 1>>

\* C12: in both variants the step that ends a run with c complete and e
\* error outcomes writes the same summary: "All c downloads complete!"
\* when e = 0, "All e downloads failed" when c = 0 and e > 0, and
\* "c downloaded, e failed" otherwise; c and e add up to the run's total.
C12_SameSummary ==
  [][\A k \in 1..Len(runs) :
       EndsRun(k) =>
         /\ downloadStatus' = ClaimedSummary(FinalTally(k)[1], FinalTally(k)[2])
         /\ FinalTally(k)[1] + FinalTally(k)[2] = runs[k].totalCount]_vars

\* C12 witness: the event-stream variant has handled all_complete after
\* one complete and one error event: "1 downloaded, 1 failed".
C12_Witness ==
  /\ variant = "static"
  /\ runs = <<>>
  /\ downloadStatus = <<"downloaded, failed", 1, 1>>
  /\ Cardinality(downloadedIds) = 1
  /\ Cardinality(errorIds) = 1

\* C13 as claimed: event-stream variant.  When all_complete is handled
\* for a run, the ZIP section is visible afterwards exactly when the
\* run's completed tally is greater than zero.  The code looks at
\* downloadedIds instead, which earlier runs on the playlist have filled
\* and New Playlist empties.
C13_ZipIffRunTally ==
  [][variant = "static" =>
       \A k \in 1..Len(runs) :
         EndsRun(k) => (~zipHidden' <=> runs[k].completedCount > 0)]_vars

\* C13 amended: event-stream variant.  When all_complete is handled for
\* a run, the ZIP section is visible afterwards exactly when
\* downloadedIds is not empty at that moment.
C13_ZipIffDownloaded ==
  [][variant = "static" =>
       \A k \in 1..Len(runs) :
         EndsRun(k) => (~zipHidden' <=> downloadedIds # {})]_vars

\* C13 witness: a second run on the playlist ended with nothing
\* completed, and the ZIP section is shown for what the first run
\* downloaded.
C13_Witness ==
  /\ variant = "static"
  /\ view = "results"
  /\ runs = <<>>
  /\ downloadStatus[1] = "All downloads failed"
  /\ downloadedIds # {}
  /\ ~zipHidden

\* A step of onerror: the only handler that writes the connectivity
\* message.
TransportErrorStep ==
  /\ variant = "static"
  /\ downloadStatus'[1] = "Connection lost."
  /\ downloadStatus[1] # "Connection lost." \/ Len(runs') < Len(runs)

\* C14: event-stream variant.  A transport error closes its
\* subscription, writes the connectivity message and enables the
\* download and select-all buttons, and leaves downloadedIds, errorIds
\* and every card's status as they were; with no subscription open, no
\* step has the effect of an event: nothing enters downloadedIds or
\* errorIds, no card changes its status (a new grid starts idle), the ZIP
\* section is not revealed, and the status, the counter and the fill
\* change only when a new run starts.
C14_TransportError ==
  /\ [][TransportErrorStep =>
         /\ Len(runs') = Len(runs) - 1
         /\ downloadStatus' = <<"Connection lost.", 0, 0>>
         /\ ~downloadBtnDisabled'
         /\ ~selectAllBtnDisabled'
         /\ downloadedIds' = downloadedIds
         /\ errorIds' = errorIds
         /\ cardState' = cardState]_vars
  /\ [][(variant = "static" /\ runs = <<>>) =>
         /\ downloadedIds' \subseteq downloadedIds
         /\ errorIds' \subseteq errorIds
         /\ cardState' = cardState \/ cardState' = AllIdle
         /\ zipHidden => zipHidden'
         /\ runs' = <<>> =>
              /\ downloadStatus' = downloadStatus
              /\ overallProgress' = overallProgress
              /\ overallFill' = overallFill]_vars

\* C14 witness: the transport failed in mid-run: one identifier was
\* downloaded, the other card is still "downloading", the subscription
\* is closed and the buttons are enabled.
C14_Witness ==
  /\ variant = "static"
  /\ view = "results"
  /\ runs = <<>>
  /\ downloadStatus[1] = "Connection lost."
  /\ downloadedIds = {1}
  /\ cardState[1] = "complete"
  /\ cardState[2] = "downloading"
  /\ ~downloadBtnDisabled
  /\ ~selectAllBtnDisabled

\* The inputs the claim is about: nothing left after trimming, or text
\* that does not begin with "http".
ClaimedInvalid == {"", "ftp://x"}

\* C15: in both variants, extractPlaylist on a URL that is empty or does
\* not start with "http" sends no extract request, shows the inline
\* error and leaves videos, selectedIds, downloadedIds, errorIds, the
\* view and the extract button as they were.
C15_InvalidUrl ==
  [][\A url \in ClaimedInvalid :
       Submit(url) =>
         /\ ~extractPending'
         /\ ~errorHidden'
         /\ videos' = videos
         /\ selectedIds' = selectedIds
         /\ downloadedIds' = downloadedIds
         /\ errorIds' = errorIds
         /\ view' = view
         /\ extractBtnDisabled' = extractBtnDisabled]_vars

\* C15 witness: back on the input view after New Playlist, the inline
\* error is shown, no request is pending and the button is enabled.
C15_Witness ==
  /\ view = "input"
  /\ ~errorHidden
  /\ ~extractPending
  /\ ~extractBtnDisabled
  /\ cards # <<>>
  /\ videos = <<>>
  /\ nextSession = IF variant = "static" THEN 2 ELSE 1

\* A step that handles a failed extraction: the request was pending and
\* the catch block shows the input view.
ExtractionFailed == extractPending /\ view' = "input"

\* C16: in both variants a failed extraction, by a non-2xx response or
\* by a 2xx response without a videos list, shows the input view with
\* the inline error, enables the extract button and leaves sessionId,
\* videos, selectedIds, downloadedIds and errorIds as they were (nothing
\* of them is written between the submission and the response, so as
\* they were when the URL was submitted).  The code breaks it on the
\* malformed response: sessionId and videos are assigned from the body
\* before videos.map throws.
C16_FailedExtraction ==
  [][ExtractionFailed =>
       /\ ~errorHidden'
       /\ ~extractBtnDisabled'
       /\ sessionId' = sessionId
       /\ videos' = videos
       /\ selectedIds' = selectedIds
       /\ downloadedIds' = downloadedIds
       /\ errorIds' = errorIds]_vars

C18_DownloadButton ==
  (variant = "public" /\ view = "results") =>
    /\ downloadBtnDisabled <=> (Len(selectedIds) = 0 \/ isDownloading)
    /\ downloadBtnCount = Len(selectedIds)

\* C18 witness: a run is in progress on one selected identifier of a
\* playlist of two; the button is disabled and reads 1.
C18_Witness ==
  /\ variant = "public"
  /\ view = "results"
  /\ isDownloading
  /\ downloadBtnDisabled
  /\ Len(videos) = 2
  /\ Len(selectedIds) = 1
  /\ downloadBtnCount = 1

\* C19: event-stream variant.  Events of a run started before a New
\* Playlist click change nothing afterwards.  Stated for the time until
\* the next playlist is shown, when no run of the current playlist can
\* exist: downloadedIds and errorIds stay empty and the ZIP section
\* stays hidden.  The code breaks it: New Playlist leaves the
\* EventSource open and its onmessage goes on adding to the sets and
\* reveals the ZIP section on all_complete.
C19_NoStaleEvents ==
  (variant = "static" /\ view # "results") =>
    /\ downloadedIds = {}
    /\ errorIds = {}
    /\ zipHidden

\* C20: event-stream variant.  At most one subscription is open at any
\* time, and while one is open the download button is disabled, whatever
\* the user does.  The code breaks it: the card's listener is not gated
\* by the run, and updateSelectionUI enables the button for a non-empty
\* selection, so a click can open a second EventSource.
C20_OneSubscription ==
  variant = "static" =>
    /\ Len(runs) <= 1
    /\ runs # <<>> => downloadBtnDisabled

\* C21: event-stream variant.  No session identifier is released by
\* more than one DELETE request, and a held sessionId is replaced only
\* after a release request for it has been sent.  The code breaks the
\* second part: a 2xx response without a videos list leaves its
\* session_id in sessionId on the input view, and the next extraction
\* response overwrites it unreleased.
C21_NoSessionLeak ==
  /\ [](variant = "static" => NoDuplicates(released))
  /\ [][(variant = "static" /\ sessionId # Null /\ sessionId' # sessionId) =>
         sessionId \in Range(released')]_vars

\* A step that handles a complete or an error event of the run at place
\* k: the run stays open and one of its tallies has grown.
ResolvesOne(k) ==
  /\ Len(runs') = Len(runs)
  /\ runs'[k].completedCount + runs'[k].errorCount
       = runs[k].completedCount + runs[k].errorCount + 1

\* C22: event-stream variant.  After every complete or error event the
\* counter's numerator is completedCount + errorCount of the run, the
\* quantity the fill is computed from, so counter and fill show the same
\* fraction.  The code breaks it: the counter is written from
\* completedCount alone.
C22_CounterMatchesFill ==
  [][variant = "static" =>
       \A k \in 1..Len(runs) :
         ResolvesOne(k) =>
           /\ overallProgress'[1]
                = runs'[k].completedCount + runs'[k].errorCount
           /\ overallProgress'[1] * overallFill'[2]
                = overallFill'[1] * overallProgress'[2]]_vars

====
